---- MODULE Spec2Model ----
(***************************************************************************)
(* homport: operator shorthand over the host's node, parameter and         *)
(* parameter-tuple objects (src/homport.py).                               *)
(*                                                                         *)
(* The state is the interactive session: the host module's node-lookup     *)
(* function and its saved original (hou.node, hou.__node), the session's   *)
(* variables (each holding nothing, a host node or a NodeWrap with its     *)
(* node and _idx), the host's node graph (the input slots of every node),  *)
(* the host's parameters (value and expression), and the outcome of the    *)
(* last statement (what was called, what it raised, what it returned).     *)
(*                                                                         *)
(* The host calls homport makes (setInput, inputConnections, parm, set,    *)
(* eval, setExpression, relativePathTo) are modelled by the Host*          *)
(* operators at the places homport calls them.                             *)
(***************************************************************************)
EXTENDS Integers, Sequences, FiniteSets, TLC

\* ---------------------------------------------------------------- scene

\* The scene: three sibling nodes below /obj.
Nodes == {"geo1", "geo2", "null1"}

\* Python's None, and "nothing raised".
None == "None"
NoExc == "ok"

\* The session's variables.
Wrappers == {"a", "b"}

\* inputs = ('input_one', 'input_two', 'input_three', 'input_four')
inputs_names == <<"input_one", "input_two", "input_three", "input_four">>

\* inputs.index(name): Python's 0-based position of name in the tuple.
InputsIndex(name) ==
    (CHOOSE i \in 1..Len(inputs_names) : inputs_names[i] = name) - 1

InputNameSet == {inputs_names[i] : i \in 1..Len(inputs_names)}

\* The input slots of a host node (0-based, as setInput numbers them).
Slots == 0..(Len(inputs_names) - 1)

\* ---------------------------------------------------------------- bounds

\* At most this many input connections exist in the node graph at once.
MaxConns == 1

\* Parameter values are 0..MaxVal; 0 is every parameter's default.
MaxVal == 1

\* At most this many parameters are away from their default at once
\* (a value other than 0, or an expression).
MaxDirty == 2

Vals == 0..MaxVal

VARIABLES
    houNode,    \* hou.node: "orig" (the host's function) or "_wrap_node"
    houSaved,   \* hou.__node: "absent", or the function saved there
    session,    \* session variable -> [kind, node, idx]
    inputs,     \* host graph: node -> slot -> the node connected there, or None
    parmVal,    \* host: node -> parameter -> stored value
    parmExpr,   \* host: node -> parameter -> expression, or NoExpr
    last        \* the last statement: [op, w, x, name, val, exc, ret]

vars == <<houNode, houSaved, session, inputs, parmVal, parmExpr, last>>

\* What a session variable holds: a NodeWrap (NodeWrapInit below), or
\* something that is no NodeWrap. A raw host node, such as `a.node`, appears
\* only as the operand of a statement.
Unbound == [kind |-> "None", node |-> None, idx |-> 0]
RawNode(n) == [kind |-> "Node", node |-> n, idx |-> 0]

\* NodeWrap.__init__: self.node = node; self._idx = 0 (raises on a false node).
NodeWrapInitExc(node) == IF node = None THEN "NodeWrapError" ELSE NoExc
NodeWrapInit(node) == [kind |-> "NodeWrap", node |-> node, idx |-> 0]

IsWrap(w) == session[w].kind = "NodeWrap"

Call(op, w, x, name, val, exc, ret) ==
    [op |-> op, w |-> w, x |-> x, name |-> name, val |-> val,
     exc |-> exc, ret |-> ret]

\* ---------------------------------------------------------------- host graph

\* hou.Node.setInput(i, src): slot i of node n now comes from src (None clears it).
HostSetInput(g, n, i, src) == [g EXCEPT ![n][i] = src]

RECURSIVE ConnSeq(_, _, _)
\* The connected slots of node n from slot i upwards, in slot order.
ConnSeq(g, n, i) ==
    IF i \notin Slots THEN <<>>
    ELSE IF g[n][i] = None THEN ConnSeq(g, n, i + 1)
    ELSE <<i>> \o ConnSeq(g, n, i + 1)

\* hou.Node.inputConnections(): one connection per CONNECTED input, in slot
\* order; free slots give no entry (testFloorDiv: length 1 after one connect,
\* length 0 after the disconnect).
HostInputConnections(g, n) == ConnSeq(g, n, 0)

\* The number of connections in the whole graph.
NumConns(g) == Cardinality({<<n, i>> \in Nodes \X Slots : g[n][i] # None})

\* ---------------------------------------------------------------- host names

\* What the host answers for a name on any of the scene's nodes:
\* the parameters (hou.Node.parm), the parameter tuples (hou.Node.parmTuple)
\* with their components, the names dir(node) lists (methods of hou.Node),
\* and a name getattr(node, name) answers though dir(node) does not list it.
ParmNames == {"tx", "ty", "tz", "scale", "type"}
TupleNames == {"t", "scale"}
TupleParms(name) == IF name = "t" THEN <<"tx", "ty", "tz">> ELSE <<name>>
DirNames == {"path", "type"}
DynNames == {"thisown"}

\* The names a statement may look up on a wrapper, besides the input selectors.
AttrNames == ParmNames \cup TupleNames \cup DirNames \cup DynNames \cup {"file1"}

\* The parameters the session links with >>.
LinkNames == {"tx"}

\* The names the session assigns to: parameters, a parameter tuple, a method
\* of the host node, and the wrapper's own node field.
SetNames == {"tx", "ty", "scale", "t", "path", "node"}

\* getattr(self.node, name) for a name dir() does not list: "absent" is the
\* AttributeError; a dynamic attribute answers with a false or a true value.
DynAnswers(name) == IF name \in DynNames THEN {"falsy", "truthy"} ELSE {"absent"}

\* hou.Parm.parmTemplate().type().name(): every parameter of the scene is a Float.
HostParmType(p) == "Float"

\* ---------------------------------------------------------------- host parameters

NoExpr == [fn |-> "", path |-> <<>>]

\* hou.Node.relativePathTo: the scene's nodes are siblings.
HostRelativePathTo(cur, to) == IF cur = to THEN <<".">> ELSE <<"..", to>>

\* The host resolving the node part of a channel reference from node cur.
HostResolveNode(cur, path) ==
    IF path = <<".">> THEN cur
    ELSE IF Len(path) = 2 /\ path[1] = ".." /\ path[2] \in Nodes THEN path[2]
    ELSE None

\* The parameter a ch()/chs() expression on node cur refers to: the text up
\* to the last "/" is the node, the rest the parameter. <<None, None>> when
\* it names nothing.
HostRefTarget(cur, e) ==
    IF Len(e.path) < 2 THEN <<None, None>>
    ELSE LET n == HostResolveNode(cur, SubSeq(e.path, 1, Len(e.path) - 1))
             p == e.path[Len(e.path)]
         IN IF n # None /\ p \in ParmNames THEN <<n, p>> ELSE <<None, None>>

Fuel == Cardinality(Nodes \X ParmNames)

RECURSIVE HostEvalF(_, _, _, _, _)
\* hou.Parm.eval(): the stored value, or the value of the parameter the
\* expression refers to (0 when it refers to nothing).
HostEvalF(pv, pe, n, p, fuel) ==
    IF pe[n][p] = NoExpr THEN pv[n][p]
    ELSE LET t == HostRefTarget(n, pe[n][p])
         IN IF t[1] = None \/ fuel = 0 THEN 0
            ELSE HostEvalF(pv, pe, t[1], t[2], fuel - 1)

HostEval(pv, pe, n, p) == HostEvalF(pv, pe, n, p, Fuel)

\* hou.ParmTuple.eval(): the components' values.
HostTupleEval(pv, pe, n, name) ==
    [i \in 1..Len(TupleParms(name)) |-> HostEval(pv, pe, n, TupleParms(name)[i])]

RECURSIVE HostSetTarget(_, _, _, _)
\* The parameter hou.Parm.set writes: the host follows a channel reference
\* to the parameter it refers to (set's follow_parm_reference).
HostSetTarget(pe, n, p, fuel) ==
    IF pe[n][p] = NoExpr \/ fuel = 0 THEN <<n, p>>
    ELSE LET t == HostRefTarget(n, pe[n][p])
         IN IF t[1] = None THEN <<n, p>>
            ELSE HostSetTarget(pe, t[1], t[2], fuel - 1)

\* hou.Parm.set(value)
HostParmSet(pv, pe, n, p, v) ==
    LET t == HostSetTarget(pe, n, p, Fuel)
    IN [pv EXCEPT ![t[1]][t[2]] = v]

\* hou.Parm.setExpression(text)
HostSetExpression(pe, n, p, e) == [pe EXCEPT ![n][p] = e]

\* The parameters away from their default.
Dirty(pv, pe) ==
    {np \in Nodes \X ParmNames : pv[np[1]][np[2]] # 0 \/ pe[np[1]][np[2]] # NoExpr}

\* ---------------------------------------------------------------- start

\* The module has been imported into a fresh session: hou.node is the host's
\* own function, nothing is bound, nothing is connected, every parameter is
\* at its default.
Init ==
    /\ houNode = "orig"
    /\ houSaved = "absent"
    /\ session = [w \in Wrappers |-> Unbound]
    /\ inputs = [n \in Nodes |-> [i \in Slots |-> None]]
    /\ parmVal = [n \in Nodes |-> [p \in ParmNames |-> 0]]
    /\ parmExpr = [n \in Nodes |-> [p \in ParmNames |-> NoExpr]]
    /\ last = Call("import", None, None, None, None, NoExc, None)

\* ---------------------------------------------------------------- on / off

\* on() without the hasattr test: every call saves and wraps again.
OnNoGuard ==
    /\ houSaved' = houNode
    /\ houNode' = "_wrap_node"
    /\ last' = Call("on", None, None, None, houSaved # "absent", NoExc, None)
    /\ UNCHANGED <<session, inputs, parmVal, parmExpr>>

\* on(): save hou.node in hou.__node and install _wrap_node, unless
\* hou.__node is already there (last.val: what hasattr(hou, "__node") gave).
On ==
    /\ IF houSaved = "absent"
       THEN houSaved' = houNode /\ houNode' = "_wrap_node"
       ELSE UNCHANGED <<houNode, houSaved>>
    /\ last' = Call("on", None, None, None, houSaved # "absent", NoExc, None)
    /\ UNCHANGED <<session, inputs, parmVal, parmExpr>>

\* off(): hou.node = hou.__node; del hou.__node. Reading a missing
\* hou.__node raises AttributeError before anything is assigned, and the
\* except clause passes.
Off ==
    /\ IF houSaved # "absent"
       THEN houNode' = houSaved /\ houSaved' = "absent"
       ELSE UNCHANGED <<houNode, houSaved>>
    /\ last' = Call("off", None, None, None, None, NoExc, None)
    /\ UNCHANGED <<session, inputs, parmVal, parmExpr>>

\* What `v = hou.node(path)` raises and binds v to; target is the node at the
\* path, None when there is none. The host's function returns its node,
\* no NodeWrap; _wrap_node calls hou.__node (looked up at call time) and wraps the result.
HouNodeResult(target) ==
    IF houNode = "orig"
    THEN [exc |-> NoExc, bind |-> Unbound]
    ELSE IF houSaved = "absent" THEN [exc |-> "AttributeError", bind |-> Unbound]
    ELSE IF houSaved # "orig" THEN [exc |-> "RuntimeError", bind |-> Unbound]
    ELSE [exc |-> NodeWrapInitExc(target), bind |-> NodeWrapInit(target)]

\* v = hou.node(path)
HouNode(v, target) ==
    LET r == HouNodeResult(target)
    IN /\ session' = IF r.exc = NoExc THEN [session EXCEPT ![v] = r.bind]
                     ELSE session
       /\ last' = Call("hou.node", v, None, target, None, r.exc, r.bind.kind)
       /\ UNCHANGED <<houNode, houSaved, inputs, parmVal, parmExpr>>

\* ---------------------------------------------------------------- __getattr__

\* __getattr__ without the early return for the names dir(self.node) lists:
\* the host attribute is counted with the other three.
GetAttrResultNoDirFirst(name, hasChild, dyn) ==
    IF name \in InputNameSet THEN [exc |-> NoExc, ret |-> "self"]
    ELSE LET childNode == IF hasChild THEN <<"NodeWrap">> ELSE <<>>
             parm == IF name \in ParmNames THEN <<"ParmWrap">> ELSE <<>>
             parmTuple == IF name \notin ParmNames /\ name \in TupleNames
                          THEN <<"ParmTupleWrap">> ELSE <<>>
             attribute == IF name \in DirNames \/ dyn = "truthy"
                          THEN <<"attribute">> ELSE <<>>
             attribs == childNode \o parm \o parmTuple \o attribute
         IN IF Len(attribs) # 1 THEN [exc |-> "AttributeError", ret |-> None]
            ELSE [exc |-> NoExc, ret |-> attribs[1]]

\* What NodeWrap.__getattr__(name) raises and returns (the kind of object).
\* hasChild: self.node.node(name) found a child; dyn: what getattr(self.node,
\* name) answers for a name dir() does not list.
GetAttrResult(name, hasChild, dyn) ==
    IF name \in InputNameSet THEN [exc |-> NoExc, ret |-> "self"]
    ELSE IF name \in DirNames THEN [exc |-> NoExc, ret |-> "attribute"]
    ELSE LET childNode == IF hasChild THEN <<"NodeWrap">> ELSE <<>>
             parm == IF name \in ParmNames THEN <<"ParmWrap">> ELSE <<>>
             parmTuple == IF name \notin ParmNames /\ name \in TupleNames
                          THEN <<"ParmTupleWrap">> ELSE <<>>
             attribute == IF dyn = "truthy" THEN <<"attribute">> ELSE <<>>
             attribs == childNode \o parm \o parmTuple \o attribute
         IN IF Len(attribs) = 0 THEN [exc |-> "AttributeError", ret |-> None]
            ELSE IF Len(attribs) > 1 THEN [exc |-> "AttributeError", ret |-> None]
            ELSE [exc |-> NoExc, ret |-> attribs[1]]

\* __getattr__ returning self for an input selector without recording it.
GetAttrSelfNoRecord(self, name) == self

\* The wrapper after __getattr__(name): an input selector sets _idx.
GetAttrSelf(self, name) ==
    IF name \in InputNameSet THEN [self EXCEPT !.idx = InputsIndex(name)]
    ELSE self

\* The statement `w.name`.
GetAttr(w, name, hasChild, dyn) ==
    LET r == GetAttrResult(name, hasChild, dyn)
    IN /\ IsWrap(w)
       /\ session' = [session EXCEPT ![w] = GetAttrSelf(session[w], name)]
       /\ last' = Call("getattr", w, None, name, <<hasChild, dyn>>, r.exc, r.ret)
       /\ UNCHANGED <<houNode, houSaved, inputs, parmVal, parmExpr>>

\* ---------------------------------------------------------------- __setattr__

\* The values a statement `w.name = value` assigns, by the kind of name: a
\* node, a slot, a tuple (v, 0, 0) for a parameter tuple, a number otherwise.
SetAttrValues(name) ==
    IF name = "node" THEN Nodes
    ELSE IF name = "_idx" THEN Slots
    ELSE IF name \in TupleNames \ ParmNames
    THEN {[i \in 1..Len(TupleParms(name)) |-> IF i = 1 THEN v ELSE 0] : v \in Vals}
    ELSE Vals

\* object.__setattr__(self, name, value) for the wrapper's own fields.
SetField(self, name, value) ==
    IF name = "node" THEN [self EXCEPT !.node = value]
    ELSE [self EXCEPT !.idx = value]

\* What __setattr__ raises, r being what self.__getattr__(name) gave: the
\* lookup's own error; nothing for a ParmWrap; for anything else
\* object.__setattr__(self, attr, value) with attr not a string, a TypeError.
SetAttrExc(name, r) ==
    IF name \in {"node", "_idx"} THEN NoExc
    ELSE IF r.exc # NoExc THEN r.exc
    ELSE IF r.ret = "ParmWrap" THEN NoExc
    ELSE "TypeError"

\* The wrapper after __setattr__.
SetAttrSelf(self, name, value) ==
    IF name \in {"node", "_idx"} THEN SetField(self, name, value)
    ELSE GetAttrSelf(self, name)

\* __setattr__ that looks the parameter up and never calls set.
SetAttrParmsNoSet(pv, pe, n, name, value, r) == pv

\* The host's parameter values after __setattr__: attr.parm.set(value) when
\* the name gave a ParmWrap.
SetAttrParms(pv, pe, n, name, value, r) ==
    IF name \notin {"node", "_idx"} /\ r.exc = NoExc /\ r.ret = "ParmWrap"
    THEN HostParmSet(pv, pe, n, name, value)
    ELSE pv

\* The statement `w.name = value`.
SetAttr(w, name, value, hasChild, dyn) ==
    LET self == session[w]
        r == GetAttrResult(name, hasChild, dyn)
    IN /\ IsWrap(w)
       /\ session' = [session EXCEPT ![w] = SetAttrSelf(self, name, value)]
       /\ parmVal' = SetAttrParms(parmVal, parmExpr, self.node, name, value, r)
       /\ Cardinality(Dirty(parmVal', parmExpr)) <= MaxDirty
       /\ last' = Call("setattr", w, None, name, value, SetAttrExc(name, r),
                       IF name \in {"node", "_idx"} THEN "field" ELSE r.ret)
       /\ UNCHANGED <<houNode, houSaved, inputs, parmExpr>>

\* ---------------------------------------------------------------- >>  <<  //

\* What the operand x of a statement is: a session variable's content (None
\* for a variable that holds no NodeWrap) or a raw host node.
Operands == Wrappers \cup Nodes

Operand(sess, x) ==
    IF x \in Wrappers THEN sess[x] ELSE RawNode(x)

\* The operand of >> and <<: a NodeWrap is used as it is, anything else goes
\* through NodeWrap(object), whose NodeWrapError is raised again.
OperandExc(obj) ==
    IF obj.kind = "NodeWrap" THEN NoExc
    ELSE IF NodeWrapInitExc(obj.node) # NoExc THEN "NodeWrapError"
    ELSE NoExc

OperandWrap(obj) ==
    IF obj.kind = "NodeWrap" THEN obj ELSE NodeWrapInit(obj.node)

\* __rshift__: node.setInput(node._idx, self.node)
RshiftGraph(g, self, obj) ==
    LET node == OperandWrap(obj)
    IN HostSetInput(g, node.node, node.idx, self.node)

\* __lshift__ taking the slot from the operand, as __rshift__ does.
LshiftGraphOperandIdx(g, self, obj) ==
    LET node == OperandWrap(obj)
    IN HostSetInput(g, self.node, node.idx, node.node)

\* __lshift__: self.node.setInput(self._idx, node.node)
LshiftGraph(g, self, obj) ==
    LET node == OperandWrap(obj)
    IN HostSetInput(g, self.node, self.idx, node.node)

\* `w >> x` in session sess (the host refuses to connect a node to itself:
\* such statements are left out). last.ret: what the slot held before.
RshiftStep(sess, w, x, op, name) ==
    LET self == sess[w]
        obj == Operand(sess, x)
        exc == OperandExc(obj)
    IN /\ session' = sess
       /\ IF exc # NoExc
          THEN inputs' = inputs
          ELSE /\ self.node # OperandWrap(obj).node
               /\ inputs' = RshiftGraph(inputs, self, obj)
               /\ NumConns(inputs') <= MaxConns
       /\ last' = Call(op, w, x, name, None, exc,
                       IF exc # NoExc THEN None
                       ELSE inputs[OperandWrap(obj).node][OperandWrap(obj).idx])
       /\ UNCHANGED <<houNode, houSaved, parmVal, parmExpr>>

\* The statement `w >> x`.
Rshift(w, x) ==
    /\ IsWrap(w)
    /\ RshiftStep(session, w, x, "rshift", None)

\* The statement `w >> x.input_...`: x.__getattr__(name), then __rshift__.
RshiftInput(w, x, name) ==
    /\ IsWrap(w)
    /\ IsWrap(x)
    /\ RshiftStep([session EXCEPT ![x] = GetAttrSelf(session[x], name)],
                  w, x, "rshift_input", name)

\* The statement `w << x`.
Lshift(w, x) ==
    LET self == session[w]
        obj == Operand(session, x)
        exc == OperandExc(obj)
    IN /\ IsWrap(w)
       /\ IF exc # NoExc
          THEN inputs' = inputs
          ELSE /\ self.node # OperandWrap(obj).node
               /\ inputs' = LshiftGraph(inputs, self, obj)
               /\ NumConns(inputs') <= MaxConns
       /\ last' = Call("lshift", w, x, None, None, exc, None)
       /\ UNCHANGED <<houNode, houSaved, session, parmVal, parmExpr>>

\* __floordiv__ without the test of the connection's input node.
FloordivResultNoCheck(g, self, node) ==
    LET conns == HostInputConnections(g, node.node)
    IN IF Len(conns) <= node.idx THEN [exc |-> NoExc, g |-> g]
       ELSE [exc |-> NoExc, g |-> HostSetInput(g, node.node, node.idx, None)]

\* __floordiv__: what it raises and the graph it leaves. It returns when
\* node has no more than node._idx connections; otherwise it takes the
\* connection at position node._idx of inputConnections() and, when that
\* comes from self.node, calls node.setInput(node._idx, None).
FloordivResult(g, self, node) ==
    LET conns == HostInputConnections(g, node.node)
    IN IF Len(conns) <= node.idx THEN [exc |-> NoExc, g |-> g]
       ELSE LET conn == conns[node.idx + 1]
            IN IF g[node.node][conn] # self.node
               THEN [exc |-> "NodeWrapError", g |-> g]
               ELSE [exc |-> NoExc, g |-> HostSetInput(g, node.node, node.idx, None)]

\* The statement `w // x`, both NodeWraps.
Floordiv(w, x) ==
    LET r == FloordivResult(inputs, session[w], session[x])
    IN /\ IsWrap(w)
       /\ IsWrap(x)
       /\ inputs' = r.g
       /\ last' = Call("floordiv", w, x, None, None, r.exc, None)
       /\ UNCHANGED <<houNode, houSaved, session, parmVal, parmExpr>>

\* ---------------------------------------------------------------- parm >> parm

\* ParmWrap.__rshift__ taking the relative path to its own node.
ParmRshiftExprOwnNode(cur_node, p, to_node, q) ==
    [fn |-> IF HostParmType(p) = "String" THEN "chs" ELSE "ch",
     path |-> HostRelativePathTo(cur_node, cur_node) \o <<q>>]

\* ParmWrap.__rshift__: the expression text, 'ch' or 'chs' by the type of
\* self.parm, then ("<relative path>/<name of the other parameter>").
ParmRshiftExpr(cur_node, p, to_node, q) ==
    [fn |-> IF HostParmType(p) = "String" THEN "chs" ELSE "ch",
     path |-> HostRelativePathTo(cur_node, to_node) \o <<q>>]

\* The references from parameter <<n, p>> onwards lead back to <<m, q>>.
RECURSIVE RefersTo(_, _, _, _, _, _)
RefersTo(pe, n, p, m, q, fuel) ==
    IF <<n, p>> = <<m, q>> THEN TRUE
    ELSE IF pe[n][p] = NoExpr \/ fuel = 0 THEN FALSE
    ELSE LET t == HostRefTarget(n, pe[n][p])
         IN t[1] # None /\ RefersTo(pe, t[1], t[2], m, q, fuel - 1)

\* The statement `w.p >> x.q`, both names giving ParmWraps (references that
\* would close a cycle are left out).
ParmRshift(w, p, x, q) ==
    LET cur_node == session[w].node
        to_node == session[x].node
    IN /\ IsWrap(w)
       /\ IsWrap(x)
       /\ GetAttrResult(p, FALSE, "absent").ret = "ParmWrap"
       /\ GetAttrResult(q, FALSE, "absent").ret = "ParmWrap"
       /\ ~RefersTo(parmExpr, to_node, q, cur_node, p, Fuel)
       /\ parmExpr' = HostSetExpression(parmExpr, cur_node, p,
                                        ParmRshiftExpr(cur_node, p, to_node, q))
       /\ Cardinality(Dirty(parmVal, parmExpr')) <= MaxDirty
       /\ last' = Call("parm_rshift", w, x, p, q, NoExc, None)
       /\ UNCHANGED <<houNode, houSaved, session, inputs, parmVal>>

\* ---------------------------------------------------------------- specifications

Lookup == \E v \in Wrappers, target \in Nodes \cup {None} : HouNode(v, target)

\* on(), off() and hou.node().
NextPatch ==
    \/ On
    \/ Off
    \/ Lookup

SpecPatch == Init /\ [][NextPatch]_vars

\* The node graph: wrappers, input selectors, >>, << and //.
NextGraph ==
    \/ On
    \/ Lookup
    \/ \E w \in Wrappers, name \in InputNameSet : GetAttr(w, name, FALSE, "absent")
    \/ \E w \in Wrappers, x \in Operands : Rshift(w, x)
    \/ \E w \in Wrappers, x \in Wrappers, name \in InputNameSet : RshiftInput(w, x, name)
    \/ \E w \in Wrappers, x \in Operands : Lshift(w, x)
    \/ \E w \in Wrappers, x \in Wrappers : Floordiv(w, x)

SpecGraph == Init /\ [][NextGraph]_vars

\* Names: what `w.name` gives for every kind of name.
NextAttr ==
    \/ On
    \/ Lookup
    \/ \E w \in Wrappers, name \in AttrNames \cup InputNameSet, hasChild \in BOOLEAN :
           \E dyn \in DynAnswers(name) : GetAttr(w, name, hasChild, dyn)
    \/ \E w \in Wrappers, value \in SetAttrValues("_idx") :
           SetAttr(w, "_idx", value, FALSE, "absent")

SpecAttr == Init /\ [][NextAttr]_vars

\* Parameters: assignment through the wrapper and parameter links.
NextParm ==
    \/ On
    \/ Lookup
    \/ \E w \in Wrappers, name \in SetNames, hasChild \in BOOLEAN :
           \E dyn \in DynAnswers(name), value \in SetAttrValues(name) :
               SetAttr(w, name, value, hasChild, dyn)
    \/ \E w \in Wrappers, x \in Wrappers, p \in LinkNames, q \in LinkNames :
           ParmRshift(w, p, x, q)

SpecParm == Init /\ [][NextParm]_vars

Next == NextPatch \/ NextGraph \/ NextAttr \/ NextParm

Spec == Init /\ [][Next]_vars

\* ================================================================ properties

NodeOf(w) == session[w].node
IdxOf(w) == session[w].idx

\* ---------------------------------------------------------------- C1

\* C1: `a >> b` written without an input selector sets b's first input
\* (index 0) to a, in every reachable state.
C1_PlainRshiftSetsFirstInput ==
    (last.op = "rshift" /\ last.exc = NoExc /\ last.x \in Wrappers)
        => inputs[NodeOf(last.x)][0] = NodeOf(last.w)

\* ---------------------------------------------------------------- C2

\* Reading w.input_one .. w.input_four records slot 0 .. 3 in w's _idx,
\* returns w itself and touches no other variable.
C2_SelectorStep ==
    (last'.op = "getattr" /\ last'.name \in InputNameSet)
        => /\ last'.ret = "self"
           /\ last'.exc = NoExc
           /\ session'[last'.w].idx = InputsIndex(last'.name)
           /\ session'[last'.w].node = session[last'.w].node
           /\ \A v \in Wrappers \ {last'.w} : session'[v] = session[v]

\* A connection into b sets exactly the recorded slot of b to a: the slot
\* b._idx held for `a >> b`, the slot just named for `a >> b.input_...`.
C2_ConnectStep ==
    (last'.op \in {"rshift", "rshift_input"} /\ last'.exc = NoExc /\ last'.x \in Wrappers)
        => LET b == session'[last'.x]
               slot == IF last'.op = "rshift" THEN session[last'.x].idx
                       ELSE InputsIndex(last'.name)
           IN /\ b.idx = slot
              /\ inputs'[b.node][slot] = session[last'.w].node
              /\ \A n \in Nodes, i \in Slots :
                     <<n, i>> # <<b.node, slot>> => inputs'[n][i] = inputs[n][i]

\* No statement but a selector or a new binding changes a recorded slot.
C2_KeepStep ==
    (last'.op \in {"on", "rshift", "lshift", "floordiv"}) => session' = session

\* C2: reading b.input_one .. b.input_four records slot 0 .. 3 in b's _idx
\* and returns b itself, and the next connection made into b
\* (`a >> b.input_two`, or `a >> b` on that wrapper) sets exactly that input
\* slot of b to a.
C2_SelectorTargetsNextConnection ==
    [][C2_SelectorStep /\ C2_ConnectStep /\ C2_KeepStep]_vars

\* `a >> b` has just connected the slot that an earlier b.input_three recorded.
C2_Witness ==
    /\ last.op = "rshift"
    /\ last.exc = NoExc
    /\ last.x \in Wrappers
    /\ IdxOf(last.x) = 2
    /\ inputs[NodeOf(last.x)][2] = NodeOf(last.w)

\* ---------------------------------------------------------------- C3

\* C3: `a << b` sets a's input at a's selected slot to b, and leaves the
\* node graph as `b >> a` would from the same state.
C3_LshiftIsRshiftReversed ==
    [][(last'.op = "lshift" /\ last'.exc = NoExc /\ last'.x \in Wrappers)
          => /\ inputs'[NodeOf(last'.w)][IdxOf(last'.w)] = NodeOf(last'.x)
             /\ inputs' = RshiftGraph(inputs, session[last'.x], session[last'.w])]_vars

\* `a << b` has acted with a's slot selected and different from b's.
C3_Witness ==
    /\ last.op = "lshift"
    /\ last.exc = NoExc
    /\ last.x \in Wrappers
    /\ IdxOf(last.w) = 1
    /\ IdxOf(last.x) = 3
    /\ inputs[NodeOf(last.w)][1] = NodeOf(last.x)

\* ---------------------------------------------------------------- C4

\* C4: when b's selected slot is free, `a >> b` followed by `a // b` on the
\* same wrappers leaves that slot unconnected and b's input connections as
\* they were before the connect.
C4_ConnectDisconnectRoundTrip ==
    [][(/\ last.op \in {"rshift", "rshift_input"}
        /\ last.exc = NoExc
        /\ last.x \in Wrappers
        /\ last.ret = None
        /\ last'.op = "floordiv"
        /\ last'.w = last.w
        /\ last'.x = last.x)
          => /\ last'.exc = NoExc
             /\ inputs'[NodeOf(last.x)][IdxOf(last.x)] = None
             /\ \A i \in Slots \ {IdxOf(last.x)} :
                    inputs'[NodeOf(last.x)][i] = inputs[NodeOf(last.x)][i]]_vars

\* ---------------------------------------------------------------- C10

\* The slot of the connection at position k (0-based) among n's connected
\* inputs in slot order, -1 when n has no more than k connections.
ConnectionAt(g, n, k) ==
    LET at == {s \in Slots : /\ g[n][s] # None
                            /\ Cardinality({j \in Slots : j < s /\ g[n][j] # None}) = k}
    IN IF at = {} THEN -1 ELSE CHOOSE s \in at : TRUE

\* C10: `a // b` raises NodeWrapError when the connection at b's selected
\* position comes from a node other than a, and then leaves every input
\* connection unchanged.
C10_WrongInputRaises ==
    [][(/\ last'.op = "floordiv"
        /\ ConnectionAt(inputs, NodeOf(last'.x), IdxOf(last'.x)) # -1
        /\ inputs[NodeOf(last'.x)][ConnectionAt(inputs, NodeOf(last'.x), IdxOf(last'.x))]
               # NodeOf(last'.w))
          => /\ last'.exc = "NodeWrapError"
             /\ inputs' = inputs]_vars

\* `a // b` has raised while b's first input comes from a third node.
C10_Witness ==
    /\ last.op = "floordiv"
    /\ last.exc = "NodeWrapError"
    /\ inputs[NodeOf(last.x)][0] \notin {None, NodeOf(last.w)}

\* ---------------------------------------------------------------- C6

\* hou.node is the host's own function with nothing saved (patch off), or
\* _wrap_node with the host's function saved for it to call (patch on).
C6_PatchShape ==
    \/ houNode = "orig" /\ houSaved = "absent"
    \/ houNode = "_wrap_node" /\ houSaved = "orig"

\* on() ends patched, and changes nothing when the patch was on already.
C6_OnStep ==
    (last'.op = "on")
        => /\ houNode' = "_wrap_node"
           /\ houSaved' = "orig"
           /\ last'.exc = NoExc
           /\ last'.val => (houNode' = houNode /\ houSaved' = houSaved)

\* off() ends unpatched and raises nothing, patched before or not.
C6_OffStep ==
    (last'.op = "off")
        => /\ houNode' = "orig"
           /\ houSaved' = "absent"
           /\ last'.exc = NoExc

\* A lookup through the patch binds a NodeWrap of the node found.
C6_LookupStep ==
    (last'.op = "hou.node" /\ houNode = "_wrap_node" /\ last'.name # None)
        => /\ last'.exc = NoExc
           /\ session'[last'.w] = NodeWrapInit(last'.name)

\* C6: after any sequence of on() and off() calls hou.node is the original
\* host function (patch off) or exactly one wrapper layer that calls the
\* original and returns a NodeWrap (patch on): a repeated on() stacks no
\* second wrapper, one off() restores the original, and off() while
\* unpatched raises nothing and changes nothing.
C6_SinglePatchLayer ==
    /\ []C6_PatchShape
    /\ [][C6_OnStep /\ C6_OffStep /\ C6_LookupStep]_vars

\* on() has been called while the patch was already on.
C6_Witness ==
    /\ last.op = "on"
    /\ last.val
    /\ houNode = "_wrap_node"
    /\ houSaved = "orig"

\* ---------------------------------------------------------------- C5

\* The kinds of thing on the host node that match a name: a child node, a
\* parameter, a parameter tuple, a Python attribute.
C5_Matches(name, hasChild, dyn) ==
    (IF hasChild THEN {"NodeWrap"} ELSE {})
    \cup (IF name \in ParmNames THEN {"ParmWrap"} ELSE {})
    \cup (IF name \in TupleNames THEN {"ParmTupleWrap"} ELSE {})
    \cup (IF name \in DirNames \/ dyn # "absent" THEN {"attribute"} ELSE {})

C5_Counted(name, hasChild, dyn) ==
    (IF hasChild THEN {"NodeWrap"} ELSE {})
    \cup (IF name \in ParmNames THEN {"ParmWrap"} ELSE {})
    \cup (IF name \in TupleNames \ ParmNames THEN {"ParmTupleWrap"} ELSE {})
    \cup (IF dyn = "truthy" THEN {"attribute"} ELSE {})

C7_ParmAssigned == last'.op = "setattr" /\ last'.ret = "ParmWrap"

\* The parameter then evaluates to v, no other parameter changed, no
\* expression changed, and the wrapper's node and _idx are as before.
C7_OnlyThatParmSet ==
    LET n == session[last'.w].node
        p == last'.name
    IN /\ last'.exc = NoExc
       /\ HostEval(parmVal', parmExpr', n, p) = last'.val
       /\ \A m \in Nodes, q \in ParmNames :
              <<m, q>> # <<n, p>> => parmVal'[m][q] = parmVal[m][q]
       /\ parmExpr' = parmExpr
       /\ session'[last'.w] = session[last'.w]

\* C7: `node.name = v`, name resolving to a single parameter, sets that
\* host parameter to v (a later eval returns v), changes no other parameter
\* and does not change the wrapper's node reference and slot index.
C7_AssignSetsOnlyThatParm ==
    [][C7_ParmAssigned => C7_OnlyThatParmSet]_vars

\* C7 as amended: the same, for a parameter that holds no channel-reference
\* expression.
C7_AssignSetsUnlinkedParm ==
    [][(C7_ParmAssigned /\ parmExpr[session[last'.w].node][last'.name] = NoExpr)
          => C7_OnlyThatParmSet]_vars

\* `node.name = 1` has set a parameter that holds no expression.
C7_Witness ==
    /\ last.op = "setattr"
    /\ last.ret = "ParmWrap"
    /\ last.exc = NoExc
    /\ last.val = 1
    /\ parmExpr[NodeOf(last.w)][last.name] = NoExpr
    /\ parmVal[NodeOf(last.w)][last.name] = 1

\* ---------------------------------------------------------------- C8

\* C8: `node.name = (v1, v2, v3)`, name resolving to a parameter tuple, sets
\* the tuple so that a later eval of it returns (v1, v2, v3).
C8_TupleAssignSetsTuple ==
    (last.op = "setattr" /\ last.ret = "ParmTupleWrap")
        => /\ last.exc = NoExc
           /\ HostTupleEval(parmVal, parmExpr, NodeOf(last.w), last.name) = last.val

\* ---------------------------------------------------------------- C9

\* C9: after `p1 >> p2`, assigning a value to p1 through its node leaves p1
\* and p2 evaluating to the same value.
C9_LinkedParmsAgreeAfterAssign ==
    [][(/\ last.op = "parm_rshift"
        /\ last'.op = "setattr"
        /\ last'.w = last.w
        /\ last'.name = last.name
        /\ last'.exc = NoExc)
          => HostEval(parmVal', parmExpr', NodeOf(last.w), last.name)
                 = HostEval(parmVal', parmExpr', NodeOf(last.x), last.val)]_vars

\* `node1.name = 1` has acted on a parameter linked to a parameter of
\* another node, and both evaluate to 1.
C9_Witness ==
    /\ last.op = "setattr"
    /\ last.ret = "ParmWrap"
    /\ last.exc = NoExc
    /\ last.val = 1
    /\ parmExpr[NodeOf(last.w)][last.name] # NoExpr
    /\ LET t == HostRefTarget(NodeOf(last.w), parmExpr[NodeOf(last.w)][last.name])
       IN /\ t[1] \notin {None, NodeOf(last.w)}
          /\ HostEval(parmVal, parmExpr, NodeOf(last.w), last.name) = 1
          /\ HostEval(parmVal, parmExpr, t[1], t[2]) = 1

====
